---- MODULE Spec2Model ----
(***************************************************************************)
(* A model of live_score.Measure (src/src/js/measure.js): one measure of   *)
(* music kept as an ordered array of notes and rests, with add_note and    *)
(* remove_note and the helpers they are built from.                        *)
(*                                                                         *)
(* live_score.js (the note length table, note_length_to_ticks, the pitch   *)
(* translation) and note.js (the Note object) are required by measure.js   *)
(* but are not part of the sources at hand; they are modelled from the     *)
(* written specification (16 ticks to the whole note, lengths encoded by   *)
(* their denominator 1, 2, 4, 8, 16).                                      *)
(***************************************************************************)
EXTENDS Integers, Sequences, FiniteSets, TLC

\* ------------------------------------------------------------------ bounds
\* time signatures have 1..MaxBeats beats
MaxBeats == 4
\* at most MaxCalls calls of add_note / remove_note are made on a measure
MaxCalls == 2
\* and at most MaxDeepCalls on the short measure that SpecDeep follows further
MaxDeepCalls == 3
\* positions handed to the quantizer alone are the fractions k / 2^FracBits
FracBits == 3

VARIABLES
  num_beats,                 \* this.num_beats (line 19)
  beat_value,                \* this.beat_value (line 25)
  num_ticks,                 \* this.num_ticks (lines 38-39)
  notes,                     \* this.notes (line 31)
  quantized_ticks_position,  \* the implicit global written at line 214
  calls,                     \* number of public calls made so far
  op,                        \* the last call: its name, request and outcome
  before                     \* this.notes as it was when the last call began

vars == <<num_beats, beat_value, num_ticks, notes, quantized_ticks_position,
          calls, op, before>>

\* --------------------------------------------------- live_score.js, note.js
\* a value that was never assigned (a missing field, an unassigned global)
undefined == -1
\* best_fit_note before any candidate was found
null == 0

\* live_score.note_lengths, in enumeration order
note_lengths == <<1, 2, 4, 8, 16>>
NoteLengths == {note_lengths[k] : k \in 1..Len(note_lengths)}

\* live_score.note_length_to_ticks: the sixteenth is one tick
note_length_to_ticks(note_length) ==
  note_lengths[Len(note_lengths)] \div note_length

rest_type == "rest"
note_type == "note"
rest_pitch == "r"

\* midi numbers the callers send, and their pitch names
MidiNumbers == {60, 62}
translate_midi_number_to_pitch(midi) ==
  CASE midi = 60 -> "c/4"
    [] midi = 62 -> "d/4"

\* new live_score.Note(pitch, length, type): a rest carries no sounding pitch
Note(pitch, length, type) ==
  [type |-> type, length |-> length,
   pitches |-> IF type = rest_type THEN {} ELSE {pitch}]
is_note(n) == n.type = note_type
is_rest(n) == n.type = rest_type
\* Note.prototype.add_note: the pitch joins the chord
note_add_note(n, note_info) ==
  [n EXCEPT !.pitches = @ \cup {translate_midi_number_to_pitch(note_info.pitch)}]
\* Note.prototype.remove_note: the pitch leaves the chord
note_remove_note(n, note_info) ==
  [n EXCEPT !.pitches = @ \ {translate_midi_number_to_pitch(note_info.pitch)}]
\* what Note.prototype.remove_note returns: is the chord now empty
note_is_empty(n) == n.pitches = {}
\* Note.prototype.make_rest
make_rest(n) == [type |-> rest_type, length |-> n.length, pitches |-> {}]

\* ------------------------------------------------------- measuring helpers
\* the ticks an event covers; a rest that was given no length covers none
EventTicks(n) ==
  IF n.length = null THEN 0 ELSE note_length_to_ticks(n.length)

RECURSIVE TotalTicks(_)
TotalTicks(seq) ==
  IF seq = <<>> THEN 0
  ELSE EventTicks(Head(seq)) + TotalTicks(Tail(seq))

\* every event has one of the supported lengths
HasLengths(seq) == \A k \in 1..Len(seq) : seq[k].length \in NoteLengths

\* the tick at which the k-th event (1-based) of seq starts
StartTick(seq, k) == TotalTicks(SubSeq(seq, 1, k - 1))
\* the tick at which it ends
EndTick(seq, k) == TotalTicks(SubSeq(seq, 1, k))

AllRests(seq) == \A k \in 1..Len(seq) : is_rest(seq[k])

\* ------------------------------------------------------ calculate_beat_level
RECURSIVE beat_level_loop(_, _, _)
beat_level_loop(k, beat_level, total_ticks) ==
  IF k > Len(note_lengths) THEN beat_level
  ELSE LET note_length == note_lengths[k]
           ticks == note_length_to_ticks(note_length)
       IN  IF /\ total_ticks % ticks = 0
              /\ note_length < beat_level
              /\ ticks <= num_ticks
           THEN beat_level_loop(k + 1, note_length, total_ticks)
           ELSE beat_level_loop(k + 1, beat_level, total_ticks)

calculate_beat_level(total_ticks) == beat_level_loop(1, num_ticks, total_ticks)

\* ------------------------------------------------------- optimal_rest_length
RECURSIVE optimal_loop(_, _, _, _, _)
optimal_loop(k, min_tick_difference, best_fit_note, beat_position, ticks) ==
  IF k > Len(note_lengths) THEN best_fit_note
  ELSE LET note_length == note_lengths[k]
           note_ticks == note_length_to_ticks(note_length)
           tick_difference == ticks - note_ticks
       IN  IF /\ note_length >= beat_position
              /\ tick_difference < min_tick_difference
              /\ tick_difference >= 0
           THEN optimal_loop(k + 1, tick_difference, note_length,
                             beat_position, ticks)
           ELSE optimal_loop(k + 1, min_tick_difference, best_fit_note,
                             beat_position, ticks)

\* optimal_rest_length without the test that the rest fits the space
RECURSIVE optimal_loop_AnyFit(_, _, _, _, _)
optimal_loop_AnyFit(k, min_tick_difference, best_fit_note, beat_position, ticks) ==
  IF k > Len(note_lengths) THEN best_fit_note
  ELSE LET note_length == note_lengths[k]
           note_ticks == note_length_to_ticks(note_length)
           tick_difference == ticks - note_ticks
       IN  IF /\ note_length >= beat_position
              /\ tick_difference < min_tick_difference
           THEN optimal_loop_AnyFit(k + 1, tick_difference, note_length,
                                    beat_position, ticks)
           ELSE optimal_loop_AnyFit(k + 1, min_tick_difference, best_fit_note,
                                    beat_position, ticks)

optimal_rest_length_AnyFit(beat_position, ticks) ==
  optimal_loop_AnyFit(1, num_ticks, null, beat_position, ticks)

optimal_rest_length(beat_position, ticks) ==
  optimal_loop(1, num_ticks, null, beat_position, ticks)

\* ----------------------------------------------------- fill_space_with_rests
\* ticks_so_far is set once and never advanced by the loop (lines 77-85)
RECURSIVE fill_loop(_, _, _)
fill_loop(ticks_so_far, ticks_left, rests) ==
  IF ~(ticks_left > 0) THEN rests
  ELSE LET beat_level == calculate_beat_level(ticks_so_far)
           rest_length == optimal_rest_length(beat_level, ticks_left)
       IN  IF rest_length = null
           THEN \* the tick count of null is no number: the loop ends
                Append(rests, Note(rest_pitch, null, rest_type))
           ELSE fill_loop(ticks_so_far,
                          ticks_left - note_length_to_ticks(rest_length),
                          Append(rests, Note(rest_pitch, rest_length, rest_type)))

fill_space_with_rests(start_tick, end_tick) ==
  fill_loop(start_tick, end_tick - start_tick, <<>>)

\* ------------------------------------------------------ create_empty_measure
\* create_empty_measure filling num_beats ticks instead of num_ticks
create_empty_measure_Beats == fill_space_with_rests(0, num_beats)

create_empty_measure == fill_space_with_rests(0, num_ticks)

\* --------------------------------------------------------- quantize_position
\* a position is the fraction num / den of the measure's width; the ones the
\* callers send here are exact in binary floating point
XPositions == {[num |-> 1, den |-> 16], [num |-> 1, den |-> 2]}

Abs(x) == IF x < 0 THEN 0 - x ELSE x

\* The loop of lines 209-216.  Differences are kept multiplied by
\* position.den, so that they stay integers.  The loop writes the global
\* quantized_ticks_position, carried here as quantized.
RECURSIVE quantize_loop(_, _, _, _, _)
quantize_loop(i, min_tick_difference, quantized, quantized_beat_ticks, position) ==
  \* i < num_quantized_beats, where num_quantized_beats is the quotient
  \* num_ticks / quantized_beat_ticks, not rounded
  IF ~(i * quantized_beat_ticks < num_ticks) THEN quantized
  ELSE LET ticks_before_beat == i * quantized_beat_ticks
           tick_difference == Abs(ticks_before_beat * position.den
                                  - position.num * num_ticks)
       IN  IF tick_difference < min_tick_difference
           THEN quantize_loop(i + 1, tick_difference, ticks_before_beat,
                              quantized_beat_ticks, position)
           ELSE quantize_loop(i + 1, min_tick_difference, quantized,
                              quantized_beat_ticks, position)

\* quantize_loop with <= for the < of line 212: the later of two equally
\* close beats wins
RECURSIVE quantize_loop_LastWins(_, _, _, _, _)
quantize_loop_LastWins(i, min_tick_difference, quantized, quantized_beat_ticks, position) ==
  IF ~(i * quantized_beat_ticks < num_ticks) THEN quantized
  ELSE LET ticks_before_beat == i * quantized_beat_ticks
           tick_difference == Abs(ticks_before_beat * position.den
                                  - position.num * num_ticks)
       IN  IF tick_difference <= min_tick_difference
           THEN quantize_loop_LastWins(i + 1, tick_difference,
                                       ticks_before_beat,
                                       quantized_beat_ticks, position)
           ELSE quantize_loop_LastWins(i + 1, min_tick_difference, quantized,
                                       quantized_beat_ticks, position)

quantize_position_LastWins(quantization, position) ==
  quantize_loop_LastWins(0, num_ticks * position.den,
                         quantized_ticks_position,
                         note_length_to_ticks(quantization), position)

\* The value the call leaves in the global quantized_ticks_position, which is
\* also the value it returns.  The declared local quantized_tick_position
\* (lines 199, 203, 206) is written and never read.  num_quantized_beats *
\* quantized_beat_ticks is (num_ticks / q) * q: the division by a power of
\* two is exact, so the product is num_ticks again.
quantize_position(quantization, position) ==
  LET quantized_beat_ticks == note_length_to_ticks(quantization)
      product_num == num_ticks * quantized_beat_ticks
      product_den == quantized_beat_ticks
      min_tick_difference ==
        IF product_num < num_ticks * product_den
        THEN Abs(num_ticks * position.den - position.num * num_ticks)
        ELSE num_ticks * position.den
  IN  quantize_loop(0, min_tick_difference, quantized_ticks_position,
                    quantized_beat_ticks, position)

\* ------------------------------------------------------------ Array.splice
\* seq.splice(index, 1), index counted from 0
SpliceOut(seq, index) ==
  SubSeq(seq, 1, index) \o SubSeq(seq, index + 2, Len(seq))
\* seq.splice(index, 0, x) for each x of items, last first: items end up in
\* order at index
SpliceIn(seq, index, items) ==
  SubSeq(seq, 1, index) \o items \o SubSeq(seq, index + 1, Len(seq))

\* ---------------------------------------------------------------- remove_rest
remove_rest(seq, rest_index) == SpliceOut(seq, rest_index)

\* ---------------------------------------------------- insert_rests_after_note
insert_rests_after_note(seq, current_position, note_to_split_index, note_info) ==
  LET start_position == note_info.quantized_tick_position
                        + note_length_to_ticks(note_info.note_length)
      end_position == current_position
  IN  SpliceIn(seq, note_to_split_index,
               fill_space_with_rests(start_position, end_position))

\* --------------------------------------------------- insert_rests_before_note
insert_rests_before_note(seq, current_position, note_to_split_index, note_to_split, note_info) ==
  LET start_position == current_position
                        - note_length_to_ticks(note_to_split.length)
      end_position == note_info.quantized_tick_position
  IN  SpliceIn(seq, note_to_split_index,
               fill_space_with_rests(start_position, end_position))

\* insert_new_note splicing the new note in twice
insert_new_note_Twice(seq, note_to_split_index, note_info) ==
  LET pitch == translate_midi_number_to_pitch(note_info.pitch)
      new_note == Note(pitch, note_info.note_length, note_type)
  IN  SpliceIn(seq, note_to_split_index, <<new_note, new_note>>)

\* ------------------------------------------------------------ insert_new_note
insert_new_note(seq, note_to_split_index, note_info) ==
  LET pitch == translate_midi_number_to_pitch(note_info.pitch)
      new_note == Note(pitch, note_info.note_length, note_type)
  IN  SpliceIn(seq, note_to_split_index, <<new_note>>)

\* ------------------------------------------------ remove_rest_and_insert_note
remove_rest_and_insert_note(seq, current_position, note_to_split_index, note_info) ==
  LET note_to_split == seq[note_to_split_index + 1]
      removed == remove_rest(seq, note_to_split_index)
      end_of_rest == current_position
                     + note_length_to_ticks(note_to_split.length)
      with_rests == insert_rests_after_note(removed, end_of_rest,
                                            note_to_split_index, note_info)
  IN  insert_new_note(with_rests, note_to_split_index, note_info)

\* ------------------------------------------------- split_rest_and_insert_note
split_rest_and_insert_note(seq, current_position, note_to_split_index, note_info) ==
  LET note_to_split == seq[note_to_split_index + 1]
      removed == remove_rest(seq, note_to_split_index)
      with_rests == insert_rests_after_note(removed, current_position,
                                            note_to_split_index, note_info)
      with_note == insert_new_note(with_rests, note_to_split_index, note_info)
  IN  insert_rests_before_note(with_note, current_position,
                               note_to_split_index, note_to_split, note_info)

\* ------------------------------------------------------ place_note_in_measure
\* The outcome of a scan: the array it leaves, and whether it threw.  Reading
\* a property of this.notes[this.notes.length], which is undefined, throws a
\* TypeError.
Returned(seq) == [threw |-> FALSE, notes |-> seq]
Thrown(seq) == [threw |-> TRUE, notes |-> seq]

\* one pass of the loop of lines 236-251, i counted from 0
RECURSIVE place_loop(_, _, _, _)
place_loop(seq, i, current_position, note_info) ==
  LET note_position == note_info.quantized_tick_position
      present == i < Len(seq)
  IN  IF ~(i <= Len(seq)) THEN Returned(seq)
      ELSE IF current_position = note_position /\ ~present THEN Thrown(seq)
      ELSE IF current_position = note_position /\ is_note(seq[i + 1])
      THEN Returned([seq EXCEPT ![i + 1] = note_add_note(@, note_info)])
      ELSE IF current_position > note_position
      THEN Returned(split_rest_and_insert_note(seq, current_position, i - 1,
                                               note_info))
      ELSE IF current_position = note_position /\ is_rest(seq[i + 1])
      THEN Returned(remove_rest_and_insert_note(seq, current_position, i,
                                                note_info))
      ELSE IF ~present THEN Thrown(seq)
      ELSE place_loop(seq, i + 1,
                      current_position + note_length_to_ticks(seq[i + 1].length),
                      note_info)

\* place_note_in_measure without the first case of the loop: a note found at
\* the position is replaced like a rest
RECURSIVE place_loop_NoMerge(_, _, _, _)
place_loop_NoMerge(seq, i, current_position, note_info) ==
  LET note_position == note_info.quantized_tick_position
      present == i < Len(seq)
  IN  IF ~(i <= Len(seq)) THEN Returned(seq)
      ELSE IF current_position > note_position
      THEN Returned(split_rest_and_insert_note(seq, current_position, i - 1,
                                               note_info))
      ELSE IF ~present THEN Thrown(seq)
      ELSE IF current_position = note_position
      THEN Returned(remove_rest_and_insert_note(seq, current_position, i,
                                                note_info))
      ELSE place_loop_NoMerge(seq, i + 1,
                      current_position + note_length_to_ticks(seq[i + 1].length),
                      note_info)

place_note_in_measure_NoMerge(seq, note_info) ==
  place_loop_NoMerge(seq, 0, 0, note_info)

place_note_in_measure(seq, note_info) == place_loop(seq, 0, 0, note_info)

\* --------------------------------------------------- remove_note_from_measure
\* one pass of the loop of lines 414-423, then lines 424-427
RECURSIVE remove_loop(_, _, _, _)
remove_loop(seq, i, current_position, note_info) ==
  LET note_position == note_info.quantized_tick_position
      present == i < Len(seq)
  IN  IF ~(i <= Len(seq)) THEN Returned(seq)
      ELSE IF ~present THEN Thrown(seq)
      ELSE IF current_position = note_position /\ is_note(seq[i + 1])
      THEN LET emptied == note_remove_note(seq[i + 1], note_info)
               empty_note == note_is_empty(emptied)
           IN  Returned([seq EXCEPT ![i + 1] =
                           IF empty_note THEN make_rest(emptied) ELSE emptied])
      ELSE remove_loop(seq, i + 1,
                       current_position + note_length_to_ticks(seq[i + 1].length),
                       note_info)

\* remove_note_from_measure without lines 424-427: an emptied note stays a note
RECURSIVE remove_loop_NoRest(_, _, _, _)
remove_loop_NoRest(seq, i, current_position, note_info) ==
  LET note_position == note_info.quantized_tick_position
      present == i < Len(seq)
  IN  IF ~(i <= Len(seq)) THEN Returned(seq)
      ELSE IF ~present THEN Thrown(seq)
      ELSE IF current_position = note_position /\ is_note(seq[i + 1])
      THEN Returned([seq EXCEPT ![i + 1] = note_remove_note(@, note_info)])
      ELSE remove_loop_NoRest(seq, i + 1,
                       current_position + note_length_to_ticks(seq[i + 1].length),
                       note_info)

remove_note_from_measure_NoRest(seq, note_info) ==
  remove_loop_NoRest(seq, 0, 0, note_info)

\* remove_note_from_measure with the loop stopping at i < this.notes.length:
\* a scan that finds no note ends normally
RECURSIVE remove_loop_Bounded(_, _, _, _)
remove_loop_Bounded(seq, i, current_position, note_info) ==
  LET note_position == note_info.quantized_tick_position
  IN  IF ~(i < Len(seq)) THEN Returned(seq)
      ELSE IF current_position = note_position /\ is_note(seq[i + 1])
      THEN LET emptied == note_remove_note(seq[i + 1], note_info)
               empty_note == note_is_empty(emptied)
           IN  Returned([seq EXCEPT ![i + 1] =
                           IF empty_note THEN make_rest(emptied) ELSE emptied])
      ELSE remove_loop_Bounded(seq, i + 1,
                       current_position + note_length_to_ticks(seq[i + 1].length),
                       note_info)

remove_note_from_measure_Bounded(seq, note_info) ==
  remove_loop_Bounded(seq, 0, 0, note_info)

remove_note_from_measure(seq, note_info) == remove_loop(seq, 0, 0, note_info)

\* ---------------------------------------------------------------- the Measure
\* live_score.Measure(measure_meta_data), lines 13-42
Measure(measure_meta_data) ==
  /\ num_beats = measure_meta_data.num_beats
  /\ beat_value = measure_meta_data.beat_value
  /\ num_ticks = num_beats * note_length_to_ticks(beat_value)
  /\ notes = create_empty_measure
  /\ quantized_ticks_position = undefined
  /\ calls = 0
  /\ op = [name |-> "Measure", result |-> "none"]
  /\ before = <<>>

\* the time signatures of the measures that notes are added to and removed from
TimeSignatures == {[num_beats |-> 4, beat_value |-> 4],
                   [num_beats |-> 3, beat_value |-> 8]}

Init == \E measure_meta_data \in TimeSignatures : Measure(measure_meta_data)

\* add_note(note_info), lines 160-165.  op keeps the pitch, the length and the
\* quantized tick of the request.
add_note(note_info) ==
  LET quantized == quantize_position(note_info.quantization,
                                     note_info.x_position)
      info == [note_info EXCEPT !.quantized_tick_position = quantized]
      placed == place_note_in_measure(notes, info)
  IN  /\ calls' = calls + 1
      /\ before' = notes
      /\ quantized_ticks_position' = quantized
      /\ IF quantized = undefined
         THEN \* the global was never assigned: reading it throws
              /\ notes' = notes
              /\ op' = [name |-> "add_note", pitch |-> note_info.pitch,
                        note_length |-> note_info.note_length,
                        quantized_tick_position |-> undefined,
                        result |-> "ReferenceError"]
         ELSE /\ notes' = placed.notes
              /\ op' = [name |-> "add_note", pitch |-> note_info.pitch,
                        note_length |-> note_info.note_length,
                        quantized_tick_position |-> quantized,
                        result |-> IF placed.threw THEN "TypeError" ELSE "true"]
      /\ UNCHANGED <<num_beats, beat_value, num_ticks>>

\* remove_note(note_info), lines 177-180: the request's position is not
\* quantized here; quantized_tick_position is read as the caller left it.
\* requested_tick is the tick the request denotes; after_add tells that the
\* call undoes the add_note just before it (same pitch, same tick), and
\* before_add is then the array as it was before that add_note.
remove_note(note_info, requested_tick) ==
  LET removed == remove_note_from_measure(notes, note_info)
      after_add == /\ op.name = "add_note"
                   /\ op.result = "true"
                   /\ op.pitch = note_info.pitch
                   /\ op.quantized_tick_position = requested_tick
  IN  /\ calls' = calls + 1
      /\ before' = notes
      /\ notes' = removed.notes
      /\ op' = [name |-> "remove_note", pitch |-> note_info.pitch,
                quantized_tick_position |-> note_info.quantized_tick_position,
                requested_tick |-> requested_tick,
                result |-> IF removed.threw THEN "TypeError" ELSE "true",
                after_add |-> after_add,
                before_add |-> IF after_add THEN before ELSE <<>>]
      /\ UNCHANGED <<num_beats, beat_value, num_ticks, quantized_ticks_position>>

\* The model follows a measure for max_calls calls, and no further once a rest
\* without a length is in it: what a scan makes of such a rest depends on
\* note_length_to_ticks(null), which lies outside measure.js.
MayCall(max_calls) == calls < max_calls /\ HasLengths(notes)

\* the ticks that add_note can leave in a note_info
QuantizedTicks ==
  {quantize_position(quantization, x_position) :
     quantization \in NoteLengths, x_position \in XPositions}

\* a caller adds a note
AddNote(max_calls) ==
  \E pitch \in MidiNumbers, note_length \in NoteLengths,
     quantization \in NoteLengths, x_position \in XPositions :
    /\ MayCall(max_calls)
    /\ add_note([pitch |-> pitch, note_length |-> note_length,
                 quantization |-> quantization, x_position |-> x_position,
                 quantized_tick_position |-> undefined])

\* a caller removes a note with a note_info whose quantized_tick_position is
\* set: to a tick an add_note left in it, or to the measure's end
RemoveNote(max_calls) ==
  \E pitch \in MidiNumbers, tick \in QuantizedTicks \cup {num_ticks} :
    /\ MayCall(max_calls)
    /\ remove_note([pitch |-> pitch, quantized_tick_position |-> tick], tick)

\* a caller removes a note with a request as specified: pitch, resolution and
\* position, and no quantized_tick_position
RemoveNoteRequest(max_calls) ==
  \E pitch \in MidiNumbers, quantization \in NoteLengths,
     x_position \in XPositions :
    /\ MayCall(max_calls)
    /\ remove_note([pitch |-> pitch, quantization |-> quantization,
                    x_position |-> x_position,
                    quantized_tick_position |-> undefined],
                   quantize_position(quantization, x_position))

Next ==
  \/ AddNote(MaxCalls)
  \/ RemoveNote(MaxCalls)
  \/ RemoveNoteRequest(MaxCalls)

Spec == Init /\ [][Next]_vars

\* ----------------------------------- a measure of 3/8, followed for more calls
InitDeep == Measure([num_beats |-> 3, beat_value |-> 8])

NextDeep ==
  \/ AddNote(MaxDeepCalls)
  \/ RemoveNote(MaxDeepCalls)
  \/ RemoveNoteRequest(MaxDeepCalls)

SpecDeep == InitDeep /\ [][NextDeep]_vars

\* ------------------------------------------- the rest filler, called directly
\* measures of every time signature of up to MaxBeats beats
InitFill ==
  \E beats \in 1..MaxBeats, value \in NoteLengths :
    Measure([num_beats |-> beats, beat_value |-> value])

FillSpaceWithRests ==
  \E start_tick \in 0..num_ticks, end_tick \in 0..num_ticks :
    /\ op.name = "Measure"
    /\ start_tick <= end_tick
    /\ op' = [name |-> "fill_space_with_rests", result |-> "returned",
              start_tick |-> start_tick, end_tick |-> end_tick,
              rests |-> fill_space_with_rests(start_tick, end_tick)]
    /\ UNCHANGED <<num_beats, beat_value, num_ticks, notes,
                   quantized_ticks_position, calls, before>>

NextFill == FillSpaceWithRests

SpecFill == InitFill /\ [][NextFill]_vars

\* ------------------------------------------------ the quantizer on its own
\* 2^n
RECURSIVE Pow2(_)
Pow2(n) == IF n = 0 THEN 1 ELSE 2 * Pow2(n - 1)

\* the fractions k / 2^FracBits of [0, 1)
FinePositions ==
  {[num |-> k, den |-> Pow2(FracBits)] : k \in 0..(Pow2(FracBits) - 1)}

\* quantize_position called directly, any number of times in a row: each
\* call finds in the global what the call before it left there
QuantizePosition ==
  \E quantization \in NoteLengths, position \in FinePositions :
    LET quantized == quantize_position(quantization, position)
    IN  /\ op.name \in {"Measure", "quantize_position"}
        /\ quantized_ticks_position' = quantized
        /\ op' = [name |-> "quantize_position", result |-> quantized,
                  quantization |-> quantization, x_position |-> position]
        /\ UNCHANGED <<num_beats, beat_value, num_ticks, notes, calls,
                       before>>

NextQuantize == QuantizePosition

SpecQuantize == InitFill /\ [][NextQuantize]_vars

\* ------------------------------------------- calculate_beat_level on its own
CalculateBeatLevel ==
  \E total_ticks \in 0..(num_ticks - 1) :
    /\ op.name = "Measure"
    /\ op' = [name |-> "calculate_beat_level",
              result |-> calculate_beat_level(total_ticks),
              total_ticks |-> total_ticks]
    /\ UNCHANGED <<num_beats, beat_value, num_ticks, notes,
                   quantized_ticks_position, calls, before>>

NextBeat == CalculateBeatLevel

SpecBeat == InitFill /\ [][NextBeat]_vars

\* ================================================================== claims
\* the events of a measure, as values
Rest(length) == Note(rest_pitch, length, rest_type)
Sounding(midi, length) ==
  Note(translate_midi_number_to_pitch(midi), length, note_type)

\* seq holds only rests of supported lengths, and they cover ticks ticks
RestsCovering(seq, ticks) ==
  AllRests(seq) /\ HasLengths(seq) /\ TotalTicks(seq) = ticks

\* the last call was a successful add_note / remove_note
Added == op.name = "add_note" /\ op.result = "true"
Removed == op.name = "remove_note" /\ op.result = "true"

\* the events of before at whose start tick the last call aimed
AimedAt == {k \in 1..Len(before) :
              StartTick(before, k) = op.quantized_tick_position}
\* the events of before that hold the aimed tick strictly inside
AimedInside == {k \in 1..Len(before) :
                  /\ StartTick(before, k) < op.quantized_tick_position
                  /\ op.quantized_tick_position < EndTick(before, k)}

\* C1: in every state reachable by add_note and remove_note calls, the tick
\* lengths of the events add up to the measure's tick length.
C1_TickSumIsTickLength == TotalTicks(notes) = num_ticks

\* C2: a freshly constructed measure, whatever its time signature, holds only
\* rests and their tick lengths add up to the measure's tick length; a fresh
\* measure of 4 quarter beats has 16 ticks and holds exactly one whole rest.
C2_FreshMeasureIsRests ==
  calls = 0 =>
    /\ RestsCovering(notes, num_ticks)
    /\ num_ticks = num_beats * note_length_to_ticks(beat_value)
    /\ (num_beats = 4 /\ beat_value = 4) =>
         (num_ticks = 16 /\ notes = <<Rest(1)>>)

C2_Witness ==
  /\ calls = 0
  /\ num_beats = 4 /\ beat_value = 4
  /\ notes = <<Rest(1)>>

\* C3: for ticks 0 <= a <= b <= tickLength, fill_space_with_rests(a, b)
\* returns only rests, and their tick lengths add up to exactly b - a.
C3_FillCoversSpan ==
  op.name = "fill_space_with_rests" =>
    RestsCovering(op.rests, op.end_tick - op.start_tick)

C3_Witness ==
  /\ op.name = "fill_space_with_rests"
  /\ num_ticks = 16
  /\ op.start_tick = 1 /\ op.end_tick = 12
  /\ Len(op.rests) > 1
  /\ TotalTicks(op.rests) = 11

\* C4: when the quantized tick t of add_note lies strictly inside a rest
\* spanning [s, e) and the note's ticks L satisfy t + L <= e, that rest is
\* replaced, in place and in this order, by rests covering [s, t), one note of
\* the requested length and pitch starting at t, and rests covering
\* [t + L, e).  On a fresh 4/4 measure, a quarter note at tick 8 gives
\* [Rest(half), Note(quarter, {P}), Rest(quarter)].
C4_SplitCase ==
  /\ \A k \in AimedInside :
       LET s == StartTick(before, k)
           e == EndTick(before, k)
           t == op.quantized_tick_position
           L == note_length_to_ticks(op.note_length)
       IN  (Added /\ is_rest(before[k]) /\ t + L <= e) =>
             \E m \in k..Len(notes) : \E n \in m..Len(notes) :
               /\ SubSeq(notes, 1, k - 1) = SubSeq(before, 1, k - 1)
               /\ RestsCovering(SubSeq(notes, k, m - 1), t - s)
               /\ notes[m] = Sounding(op.pitch, op.note_length)
               /\ RestsCovering(SubSeq(notes, m + 1, n), e - (t + L))
               /\ SubSeq(notes, n + 1, Len(notes))
                    = SubSeq(before, k + 1, Len(before))
  /\ ( /\ Added
       /\ num_ticks = 16
       /\ before = <<Rest(1)>>
       /\ op.note_length = 4
       /\ op.quantized_tick_position = 8 ) =>
       notes = <<Rest(2), Sounding(op.pitch, 4), Rest(4)>>

\* C5: when the quantized tick t of add_note is the start tick of a rest
\* spanning [t, e), that rest is removed and a note of the requested length
\* and pitch takes its index; the rests that follow the note cover what is
\* left of [t, e), so that the events that followed the old rest still start
\* at tick e.
C5_ExactFitCase ==
  \A k \in AimedAt :
    LET e == EndTick(before, k)
    IN  (Added /\ is_rest(before[k])) =>
          \E n \in k..Len(notes) :
            /\ SubSeq(notes, 1, k - 1) = SubSeq(before, 1, k - 1)
            /\ notes[k] = Sounding(op.pitch, op.note_length)
            /\ AllRests(SubSeq(notes, k + 1, n))
            /\ HasLengths(SubSeq(notes, k + 1, n))
            /\ SubSeq(notes, n + 1, Len(notes))
                 = SubSeq(before, k + 1, Len(before))
            /\ EndTick(notes, n) = e

\* C6: when the quantized tick of add_note is the start tick of a note, the
\* pitch joins that note's pitches and nothing else changes: the number of
\* events, their order, their variants and their lengths stay, whatever
\* length the request carries.
C6_MergeCase ==
  \A k \in AimedAt :
    (op.name = "add_note" /\ is_note(before[k])) =>
      /\ op.result = "true"
      /\ Len(notes) = Len(before)
      /\ \A j \in 1..Len(before) : j # k => notes[j] = before[j]
      /\ notes[k].type = note_type
      /\ notes[k].length = before[k].length
      /\ notes[k].pitches =
           before[k].pitches \cup {translate_midi_number_to_pitch(op.pitch)}

C6_Witness ==
  /\ op.name = "add_note"
  /\ \E k \in AimedAt :
       /\ is_note(before[k])
       /\ before[k].length # op.note_length
       /\ Cardinality(before[k].pitches) = 1
       /\ Cardinality(notes[k].pitches) = 2

\* C7: remove_note at a tick where a note starts takes the pitch out of that
\* note; the event becomes a rest of the same length if no pitch is left and
\* stays a note with the remaining pitches otherwise.  No event is added or
\* dropped, every length stays, and every other event is untouched.  Taking P
\* at tick 8 out of [Rest(half), Note(quarter, {P}), Rest(quarter)] leaves
\* [Rest(half), Rest(quarter), Rest(quarter)].
C7_RemoveCase ==
  \A k \in AimedAt :
    (op.name = "remove_note" /\ is_note(before[k])) =>
      LET remaining == before[k].pitches
                         \ {translate_midi_number_to_pitch(op.pitch)}
      IN  /\ op.result = "true"
          /\ Len(notes) = Len(before)
          /\ \A j \in 1..Len(before) : j # k => notes[j] = before[j]
          /\ notes[k].length = before[k].length
          /\ notes[k].pitches = remaining
          /\ notes[k].type =
               IF remaining = {} THEN rest_type ELSE note_type
          /\ before = <<Rest(2), Sounding(op.pitch, 4), Rest(4)>> =>
               notes = <<Rest(2), Rest(4), Rest(4)>>

C7_Witness ==
  /\ Removed
  /\ num_ticks = 16
  /\ op.quantized_tick_position = 8
  /\ before = <<Rest(2), Sounding(op.pitch, 4), Rest(4)>>
  /\ notes = <<Rest(2), Rest(4), Rest(4)>>

\* C8: add_note followed by remove_note of the same pitch at the same
\* quantized tick leaves the total of the events' tick lengths what it was
\* before the two calls, which is the measure's tick length.
C8_RoundTripKeepsTotal ==
  (Removed /\ op.after_add) =>
    /\ TotalTicks(notes) = TotalTicks(op.before_add)
    /\ TotalTicks(notes) = num_ticks

\* C9: a remove_note aimed at a tick where no note starts does not report
\* success and leaves the events as they were; add_note never scans for a
\* tick at or beyond the measure's tick length, and would leave the events
\* as they were if it did.
C9_ViolationsChangeNothing ==
  /\ (op.name = "remove_note" /\ \A k \in AimedAt : ~is_note(before[k])) =>
       (op.result # "true" /\ notes = before)
  /\ op.name = "add_note" =>
       /\ op.quantized_tick_position >= 0
       /\ op.quantized_tick_position < num_ticks
       /\ op.result # "true" => notes = before

C9_Witness ==
  /\ op.name = "remove_note"
  /\ op.result = "TypeError"
  /\ \E k \in AimedInside : is_note(before[k])
  /\ notes = before

\* C10: a remove_note request that carries the pitch, resolution and position
\* of the add_note just before it, and no precomputed tick, finds the note at
\* the tick that add_note quantized to and takes the pitch out of it.
C10_RemoveQuantizesRequest ==
  ( /\ op.name = "remove_note"
    /\ op.quantized_tick_position = undefined
    /\ op.after_add ) =>
    /\ op.result = "true"
    /\ \A k \in 1..Len(before) :
         StartTick(before, k) = op.requested_tick =>
           translate_midi_number_to_pitch(op.pitch) \notin notes[k].pitches

\* the ticks below the measure's end that are multiples of step
Multiples(step) == {m \in 0..(num_ticks - 1) : m % step = 0}
\* |tick - fraction * num_ticks|, multiplied by the fraction's denominator
Distance(tick, position) == Abs(tick * position.den - position.num * num_ticks)

\* C11: quantize_position returns a multiple of the resolution's ticks that
\* lies in [0, num_ticks) and is as close to the position as any such
\* multiple, the smaller of two equally close ones; the answer is fixed by
\* the resolution, the fraction and num_ticks, whatever the calls before
\* left behind.
C11_QuantizeNearestMultiple ==
  op.name = "quantize_position" =>
    LET step == note_length_to_ticks(op.quantization)
        q == op.result
    IN  /\ q \in Multiples(step)
        /\ \A m \in Multiples(step) :
             /\ Distance(q, op.x_position) <= Distance(m, op.x_position)
             /\ Distance(q, op.x_position) = Distance(m, op.x_position)
                  => q <= m
        /\ quantized_ticks_position = q

\* a position half way between two beats of the resolution went to the
\* earlier one
C11_Witness ==
  /\ op.name = "quantize_position"
  /\ \E m \in Multiples(note_length_to_ticks(op.quantization)) :
       /\ m > op.result
       /\ Distance(m, op.x_position) = Distance(op.result, op.x_position)


\* the denominations that may start at tick t of this measure: t is a
\* multiple of their ticks and they are no longer than the measure
StartsOn(t) ==
  {d \in NoteLengths : /\ t % note_length_to_ticks(d) = 0
                       /\ note_length_to_ticks(d) <= num_ticks}

\* C12: for every measure, the short ones too, and every tick t below
\* num_ticks, calculate_beat_level(t) is a supported denomination: the longest
\* one (smallest denominator) whose ticks divide t and do not exceed
\* num_ticks.
C12_BeatLevelIsLongestAligned ==
  op.name = "calculate_beat_level" =>
    /\ op.result \in StartsOn(op.total_ticks)
    /\ \A d \in StartsOn(op.total_ticks) : op.result <= d

\* the ticks of the first k events of seq
TicksBefore(seq, k) == TotalTicks(SubSeq(seq, 1, k - 1))

\* the denominations that fit in remaining ticks and are no longer than the
\* longest denomination that may start at tick t
FitsUnderCeiling(t, remaining) ==
  {d \in NoteLengths : /\ note_length_to_ticks(d) <= remaining
                       /\ \E c \in StartsOn(t) : note_length_to_ticks(d)
                                                  <= note_length_to_ticks(c)}

\* C13: fill_space_with_rests takes its ceiling anew at every step, at the
\* tick reached so far: the k-th rest is the longest denomination that fits
\* what is left and is no longer than the beat level of start_tick plus the
\* ticks of the rests before it; filling [1, 4) of a 16-tick measure gives
\* [Rest(sixteenth), Rest(eighth)].
C13_CeilingFollowsTheTick ==
  op.name = "fill_space_with_rests" =>
    /\ \A k \in 1..Len(op.rests) :
         LET t == op.start_tick + TicksBefore(op.rests, k)
             fitting == FitsUnderCeiling(t, op.end_tick - t)
         IN  /\ op.rests[k].length \in fitting
             /\ \A d \in fitting : op.rests[k].length <= d
    /\ (num_ticks = 16 /\ op.start_tick = 1 /\ op.end_tick = 4)
         => op.rests = <<Rest(16), Rest(8)>>

\* C15: every rest that fill_space_with_rests(a, b) returns, for 0 <= a <= b
\* <= num_ticks, starts (a plus the ticks of the rests before it) on a
\* multiple of its own ticks.
C15_FillRestsAreAligned ==
  op.name = "fill_space_with_rests" =>
    \A k \in 1..Len(op.rests) :
      (op.start_tick + TicksBefore(op.rests, k)) % EventTicks(op.rests[k]) = 0


\* C14: every fill made while constructing a measure or adding a note finds a
\* denomination at each step (optimal_rest_length never answers null) and
\* ends with nothing left over: no rest without a length ever enters the
\* measure.
C14_FillAlwaysFindsARest == HasLengths(notes)

\* C16: the rest that remove_note makes of a note left without pitches starts
\* on a multiple of its own ticks.
C16_RestOfRemovalIsAligned ==
  \A k \in AimedAt :
    (Removed /\ is_note(before[k]) /\ is_rest(notes[k])) =>
      StartTick(notes, k) % EventTicks(notes[k]) = 0

\* the event of before that holds the tick the last call aimed at
Held == AimedAt \cup AimedInside
\* the call found a note starting at the tick: add_note merges into it,
\* remove_note takes a pitch out of it
OnNote(k) == k \in AimedAt /\ is_note(before[k])
\* what stands in notes where before had its k-th event
Middle(k) == SubSeq(notes, k, Len(notes) - (Len(before) - k))
RestsIn(seq) == Cardinality({j \in 1..Len(seq) : is_rest(seq[j])})
NotesIn(seq) == Cardinality({j \in 1..Len(seq) : is_note(seq[j])})
\* the events before and after the k-th of before are in notes, in order
KeptAround(k) ==
  /\ Len(notes) >= Len(before) - 1
  /\ \A j \in 1..(k - 1) : notes[j] = before[j]
  /\ \A j \in (k + 1)..Len(before) :
       notes[j + Len(notes) - Len(before)] = before[j]
\* the call changed the k-th event in place and nothing else
ChangedInPlace(k) ==
  /\ Len(notes) = Len(before)
  /\ \A j \in 1..Len(before) : j # k => notes[j] = before[j]
  /\ is_note(before[k])

C18_EndBoundaryFallback ==
  op.name = "quantize_position" =>
    LET step == note_length_to_ticks(op.quantization)
    IN  (/\ num_ticks % step # 0
         /\ \A m \in Multiples(step) :
              Distance(num_ticks, op.x_position) < Distance(m, op.x_position))
          => op.result = num_ticks

\* C19: add_note leaves every note of the measure where it was: same start
\* tick, same length, at least the same pitches; the one event it may take
\* out is a rest, also when the tick falls inside a note.
C19_AddKeepsNotes ==
  Added =>
    \A k \in 1..Len(before) :
      is_note(before[k]) =>
        \E j \in 1..Len(notes) :
          /\ is_note(notes[j])
          /\ StartTick(notes, j) = StartTick(before, k)
          /\ notes[j].length = before[k].length
          /\ before[k].pitches \subseteq notes[j].pitches

\* C20: an add_note that splits or replaces the event holding the tick leaves
\* every event before it as it was, start tick included, and every event
\* after it as it was, in the same order and at the same start tick.
C20_AddIsLocal ==
  \A k \in Held :
    (Added /\ ~OnNote(k)) =>
      /\ KeptAround(k)
      /\ \A j \in 1..(k - 1) : StartTick(notes, j) = StartTick(before, j)
      /\ \A j \in (k + 1)..Len(before) :
           StartTick(notes, j + Len(notes) - Len(before))
             = StartTick(before, j)


====
